---- MODULE Spec2Model ----
(***************************************************************************)
(* kdecode: reads one YAML document from standard input, rewrites every    *)
(* Secret (at the root or reached through the items of a List) so that its *)
(* base64 data entries become plaintext stringData entries, and prints the *)
(* result as YAML.  Source: src/src/main.rs.                               *)
(*                                                                         *)
(* A serde_json::Value is modelled as a tagged tuple:                      *)
(*   <<"Null">>, <<"Number", n>>, <<"String", bytes>>,                     *)
(*   <<"Array", seq of Value>>, <<"Object", seq of <<key, Value>>>>.       *)
(* A String's payload is its sequence of UTF-8 bytes (what a Rust String   *)
(* holds); an Object's payload is the serde_json::Map in iteration order.  *)
(* Object keys are written as TLA+ strings: the program never converts a   *)
(* key, it only compares and copies them.                                  *)
(***************************************************************************)
EXTENDS Integers, Sequences, FiniteSets, TLC

VARIABLES
    preserve_order, \* build: serde_json's "preserve_order" feature (IndexMap) or not (BTreeMap)
    stdin,          \* the document on standard input, keys in document order
    pc,             \* position of main
    input,          \* main's `input` (line 12)
    output,         \* main's first `output`, the Value parse_input returned (line 13)
    yaml,           \* main's second `output`, the serialized text as lines (line 14)
    stdout,         \* the lines printed so far
    panic,          \* "none", or what the panicking unwrap() carried
    exit_code       \* -1 while running

vars == <<preserve_order, stdin, pc, input, output, yaml, stdout, panic, exit_code>>

----------------------------------------------------------------------------
(* serde_json::Value *)

Null == <<"Null">>
Num(n) == <<"Number", n>>
Str(s) == <<"String", s>>
Arr(a) == <<"Array", a>>
Obj(m) == <<"Object", m>>

IsObject(v) == v[1] = "Object"
IsArray(v) == v[1] = "Array"
IsString(v) == v[1] = "String"

\* results of a call that may panic
Ok(v) == <<"Ok", v>>
Panic(cause) == <<"Panic", cause>>
IsOk(r) == r[1] = "Ok"

\* the bytes of the string literals the program compares `kind` with
SecretBytes == <<83, 101, 99, 114, 101, 116>>
ListBytes == <<76, 105, 115, 116>>

\* the comparison gone wrong: any String kind matches
ValueEqStrAnyString(v, bytes) == IsString(v)

\* `kind == "Secret"`: serde_json's PartialEq<str> for Value, true only of a String
\* with exactly these bytes
ValueEqStr(v, bytes) == IsString(v) /\ v[2] = bytes

----------------------------------------------------------------------------
(* serde_json::Map<String, Value>: an IndexMap under preserve_order, a     *)
(* BTreeMap otherwise.  A map is the sequence of its <<key, value>> pairs  *)
(* in iteration order.                                                     *)

\* byte order of the keys used (String's Ord, which a BTreeMap iterates in)
KeyRank(k) ==
    CASE k = "apiVersion" -> 1
      [] k = "data" -> 2
      [] k = "hello" -> 3
      [] k = "items" -> 4
      [] k = "key" -> 5
      [] k = "kind" -> 6
      [] k = "metadata" -> 7
      [] k = "name" -> 8
      [] k = "stringData" -> 9
      [] k = "type" -> 10

KeysOf(m) == {m[i][1] : i \in 1..Len(m)}
KeySeq(m) == [i \in 1..Len(m) |-> m[i][1]]
HasKey(m, k) == \E i \in 1..Len(m) : m[i][1] = k
IdxOf(m, k) == CHOOSE i \in 1..Len(m) : m[i][1] = k

\* Map::get
MapGet(m, k) == m[IdxOf(m, k)][2]

DeleteAt(m, i) == [j \in 1..(Len(m) - 1) |-> IF j < i THEN m[j] ELSE m[j + 1]]

\* IndexMap::swap_remove: the last entry takes the removed entry's place
SwapRemoveAt(m, i) ==
    [j \in 1..(Len(m) - 1) |-> IF j = i THEN m[Len(m)] ELSE m[j]]

\* Map::remove gone wrong: the entry is read and left in the map (get for remove)
MapRemoveNothing(m, k, po) == m

\* Map::remove gone wrong: the last entry is popped, whichever key was asked for
MapRemovePopsLast(m, k, po) ==
    IF ~HasKey(m, k) THEN m ELSE SubSeq(m, 1, Len(m) - 1)

\* Map::remove (the map after it; the removed value is MapGet before it)
MapRemove(m, k, po) ==
    IF ~HasKey(m, k) THEN m
    ELSE IF po THEN SwapRemoveAt(m, IdxOf(m, k))
    ELSE DeleteAt(m, IdxOf(m, k))

\* where a new key goes in a BTreeMap: after every smaller key
SortedPos(m, k) == Cardinality({i \in 1..Len(m) : KeyRank(m[i][1]) < KeyRank(k)}) + 1

InsertAt(m, p, e) ==
    [j \in 1..(Len(m) + 1) |-> IF j < p THEN m[j] ELSE IF j = p THEN e ELSE m[j - 1]]

\* Map::insert gone wrong: an existing key is dropped and appended anew
MapInsertMovesToEnd(m, k, v, po) ==
    IF HasKey(m, k) THEN Append(DeleteAt(m, IdxOf(m, k)), <<k, v>>)
    ELSE IF po THEN Append(m, <<k, v>>)
    ELSE InsertAt(m, SortedPos(m, k), <<k, v>>)

\* Map::insert: an existing key keeps its place and takes the new value; a new
\* key is appended (IndexMap) or placed in key order (BTreeMap)
MapInsert(m, k, v, po) ==
    IF HasKey(m, k) THEN [m EXCEPT ![IdxOf(m, k)] = <<k, v>>]
    ELSE IF po THEN Append(m, <<k, v>>)
    ELSE InsertAt(m, SortedPos(m, k), <<k, v>>)

----------------------------------------------------------------------------
(* base64::decode (the standard alphabet, padded) and String::from_utf8    *)

B64Val(c) ==
    IF c >= 65 /\ c <= 90 THEN c - 65
    ELSE IF c >= 97 /\ c <= 122 THEN c - 71
    ELSE IF c >= 48 /\ c <= 57 THEN c + 4
    ELSE IF c = 43 THEN 62
    ELSE IF c = 47 THEN 63
    ELSE -1

PadCount(s) ==
    IF Len(s) >= 1 /\ s[Len(s)] = 61
    THEN (IF Len(s) >= 2 /\ s[Len(s) - 1] = 61 THEN 2 ELSE 1)
    ELSE 0

\* the three bytes of a full quantum of four symbols
Quantum(s, q) ==
    LET a == B64Val(s[4 * q - 3])
        b == B64Val(s[4 * q - 2])
        c == B64Val(s[4 * q - 1])
        d == B64Val(s[4 * q])
    IN <<a * 4 + (b \div 16), (b % 16) * 16 + (c \div 4), (c % 4) * 64 + d>>

RECURSIVE Quanta(_, _)
Quanta(s, n) == IF n = 0 THEN <<>> ELSE Quanta(s, n - 1) \o Quantum(s, n)

\* the bytes of the final, padded quantum
LastQuantum(s, pad) ==
    LET q == Len(s) \div 4
        a == B64Val(s[4 * q - 3])
        b == B64Val(s[4 * q - 2])
        c == B64Val(s[4 * q - 1])
    IN IF pad = 2 THEN <<a * 4 + (b \div 16)>>
       ELSE <<a * 4 + (b \div 16), (b % 16) * 16 + (c \div 4)>>

\* the last symbol before the padding carries no stray bits
LastSymbolOk(s, pad) ==
    LET q == Len(s) \div 4
    IN IF pad = 2 THEN B64Val(s[4 * q - 2]) % 16 = 0
       ELSE B64Val(s[4 * q - 1]) % 4 = 0

\* what the decoder accepts: whole quanta, symbols of the alphabet, canonical
\* padding.  (Releases of the crate differ on unpadded input and on stray bits
\* in the last symbol; the documents below hold no such string.)
Base64Valid(s) ==
    LET pad == PadCount(s)
    IN /\ Len(s) % 4 = 0
       /\ \A i \in 1..(Len(s) - pad) : B64Val(s[i]) >= 0
       /\ pad > 0 => LastSymbolOk(s, pad)

\* base64::decode: Ok(bytes) or Err(DecodeError)
Base64Decode(s) ==
    IF ~Base64Valid(s) THEN <<"Err", <<>>>>
    ELSE LET pad == PadCount(s)
             full == IF pad = 0 THEN Len(s) \div 4 ELSE (Len(s) \div 4) - 1
         IN <<"Ok", Quanta(s, full) \o (IF pad = 0 THEN <<>> ELSE LastQuantum(s, pad))>>

IsCont(b) == b >= 128 /\ b <= 191

\* String::from_utf8's validation
RECURSIVE Utf8Valid(_)
Utf8Valid(b) ==
    IF b = <<>> THEN TRUE
    ELSE LET h == b[1]
             n == Len(b)
         IN IF h < 128 THEN Utf8Valid(Tail(b))
            ELSE IF h >= 194 /\ h <= 223
                 THEN n >= 2 /\ IsCont(b[2]) /\ Utf8Valid(SubSeq(b, 3, n))
            ELSE IF h >= 224 /\ h <= 239
                 THEN /\ n >= 3 /\ IsCont(b[2]) /\ IsCont(b[3])
                      /\ (h = 224 => b[2] >= 160)
                      /\ (h = 237 => b[2] <= 159)
                      /\ Utf8Valid(SubSeq(b, 4, n))
            ELSE IF h >= 240 /\ h <= 244
                 THEN /\ n >= 4 /\ IsCont(b[2]) /\ IsCont(b[3]) /\ IsCont(b[4])
                      /\ (h = 240 => b[2] >= 144)
                      /\ (h = 244 => b[2] <= 143)
                      /\ Utf8Valid(SubSeq(b, 5, n))
            ELSE FALSE

----------------------------------------------------------------------------
(* parse_input, src/src/main.rs lines 31-67 *)

\* string_data.insert(key, value) for each entry of the existing stringData
RECURSIVE InsertAll(_, _, _)
InsertAll(acc, entries, po) ==
    IF entries = <<>> THEN acc
    ELSE InsertAll(MapInsert(acc, entries[1][1], entries[1][2], po), Tail(entries), po)

\* decoding gone wrong: a value that is no base64 becomes the empty text
\* (unwrap_or_default for unwrap)
DecodeEntryLenient(value) ==
    IF ~IsString(value) THEN Panic("NoneUnwrap")
    ELSE LET d == Base64Decode(value[2])
         IN IF d[1] = "Err" THEN Ok(Str(<<>>))
            ELSE IF ~Utf8Valid(d[2]) THEN Panic("FromUtf8Error")
            ELSE Ok(Str(d[2]))

\* one data value: as_str().unwrap(), base64::decode(..).unwrap(),
\* String::from_utf8(..).unwrap(), Value::String(..)
DecodeEntry(value) ==
    IF ~IsString(value) THEN Panic("NoneUnwrap")
    ELSE LET d == Base64Decode(value[2])
         IN IF d[1] = "Err" THEN Panic("DecodeError")
            ELSE IF ~Utf8Valid(d[2]) THEN Panic("FromUtf8Error")
            ELSE Ok(Str(d[2]))

\* the loop over data gone wrong: an entry stringData already holds is kept
RECURSIVE DecodeAllKeepExisting(_, _, _)
DecodeAllKeepExisting(acc, entries, po) ==
    IF entries = <<>> THEN Ok(acc)
    ELSE LET d == DecodeEntry(entries[1][2])
         IN IF ~IsOk(d) THEN d
            ELSE DecodeAllKeepExisting(IF HasKey(acc, entries[1][1]) THEN acc
                                       ELSE MapInsert(acc, entries[1][1], d[2], po),
                                       Tail(entries), po)

\* the loop over data: each decoded entry is inserted over what string_data
\* holds; the first panic ends the loop
RECURSIVE DecodeAll(_, _, _)
DecodeAll(acc, entries, po) ==
    IF entries = <<>> THEN Ok(acc)
    ELSE LET d == DecodeEntry(entries[1][2])
         IN IF ~IsOk(d) THEN d
            ELSE DecodeAll(MapInsert(acc, entries[1][1], d[2], po), Tail(entries), po)

\* the Secret branch gone wrong: stringData is removed before data is looked for
SecretBranchDropsStringData(m, po) ==
    IF ~HasKey(m, "data") THEN Ok(Obj(MapRemove(m, "stringData", po)))
    ELSE LET data == MapGet(m, "data")
             m1 == MapRemove(m, "data", po)
             hasExisting == HasKey(m1, "stringData")
             existing == MapGet(m1, "stringData")
             m2 == MapRemove(m1, "stringData", po)
         IN IF hasExisting /\ ~IsObject(existing) THEN Panic("NoneUnwrap")
            ELSE IF ~IsObject(data) THEN Panic("NoneUnwrap")
            ELSE LET string_data ==
                         DecodeAll(IF hasExisting THEN InsertAll(<<>>, existing[2], po)
                                   ELSE <<>>,
                                   data[2], po)
                 IN IF ~IsOk(string_data) THEN string_data
                    ELSE Ok(Obj(MapInsert(m2, "stringData", Obj(string_data[2]), po)))

\* kind == "Secret"
SecretBranch(m, po) ==
    IF ~HasKey(m, "data") THEN Ok(Obj(m))
    ELSE LET data == MapGet(m, "data")
             m1 == MapRemove(m, "data", po)
             hasExisting == HasKey(m1, "stringData")
             existing == MapGet(m1, "stringData")
             m2 == MapRemove(m1, "stringData", po)
         IN IF hasExisting /\ ~IsObject(existing) THEN Panic("NoneUnwrap")
            ELSE IF ~IsObject(data) THEN Panic("NoneUnwrap")
            ELSE LET string_data ==
                         DecodeAll(IF hasExisting THEN InsertAll(<<>>, existing[2], po)
                                   ELSE <<>>,
                                   data[2], po)
                 IN IF ~IsOk(string_data) THEN string_data
                    ELSE Ok(Obj(MapInsert(m2, "stringData", Obj(string_data[2]), po)))

RECURSIVE parse_input(_, _)
RECURSIVE ParseItems(_, _)

\* kind == "List"
ListBranch(m, po) ==
    IF ~HasKey(m, "items") THEN Ok(Obj(m))
    ELSE LET items == MapGet(m, "items")
         IN IF ~IsArray(items) THEN Panic("NoneUnwrap")
            ELSE LET newItems == ParseItems(items[2], po)
                 IN IF ~IsOk(newItems) THEN newItems
                    ELSE Ok(Obj(MapInsert(m, "items", Arr(newItems[2]), po)))

\* the loop over items gone wrong: the items are pushed as they are
ParseItemsUnparsed(items, po) == Ok(items)

\* the loop over items: newItems.push(parse_input(item.clone())), in order; a
\* panic in one item unwinds through the loop
ParseItems(items, po) ==
    IF items = <<>> THEN Ok(<<>>)
    ELSE LET h == parse_input(Head(items), po)
         IN IF ~IsOk(h) THEN h
            ELSE LET t == ParseItems(Tail(items), po)
                 IN IF ~IsOk(t) THEN t ELSE Ok(<<h[2]>> \o t[2])

parse_input(v, po) ==
    IF ~IsObject(v) THEN Ok(v)
    ELSE IF ~HasKey(v[2], "kind") THEN Ok(v)
    ELSE IF ValueEqStr(MapGet(v[2], "kind"), SecretBytes) THEN SecretBranch(v[2], po)
    ELSE IF ValueEqStr(MapGet(v[2], "kind"), ListBytes) THEN ListBranch(v[2], po)
    ELSE Ok(v)

----------------------------------------------------------------------------
(* the collaborators of main: serde_yaml::from_reader and                  *)
(* serde_yaml::to_string                                                   *)

\* standard input that is not one YAML document
Malformed == <<"Malformed">>

\* from_reader builds every mapping by inserting its entries in document order
RECURSIVE FromReader(_, _)
RECURSIVE ReadEntries(_, _, _)
ReadEntries(acc, entries, po) ==
    IF entries = <<>> THEN acc
    ELSE ReadEntries(MapInsert(acc, entries[1][1], FromReader(entries[1][2], po), po),
                     Tail(entries), po)

FromReader(doc, po) ==
    IF IsObject(doc) THEN Obj(ReadEntries(<<>>, doc[2], po))
    ELSE IF IsArray(doc) THEN Arr([i \in 1..Len(doc[2]) |-> FromReader(doc[2][i], po)])
    ELSE doc

\* to_string writes one line per scalar entry and one header line per nested
\* mapping or sequence, in iteration order: <<depth, key or "-", scalar or marker>>
RECURSIVE YamlLines(_, _, _)
RECURSIVE YamlEntries(_, _)
RECURSIVE YamlItems(_, _)
YamlEntries(m, depth) ==
    IF m = <<>> THEN <<>>
    ELSE YamlLines(m[1][2], depth, m[1][1]) \o YamlEntries(Tail(m), depth)

YamlItems(a, depth) ==
    IF a = <<>> THEN <<>>
    ELSE YamlLines(a[1], depth, "-") \o YamlItems(Tail(a), depth)

YamlLines(v, depth, label) ==
    IF IsObject(v) THEN <<<<depth, label, <<"Mapping">>>>>> \o YamlEntries(v[2], depth + 1)
    ELSE IF IsArray(v) THEN <<<<depth, label, <<"Sequence">>>>>> \o YamlItems(v[2], depth + 1)
    ELSE <<<<depth, label, v>>>>

ToYaml(v) == YamlLines(v, 0, "---")

----------------------------------------------------------------------------
(* the documents standard input is drawn from *)

\* the most entries (Secrets, other resources, nested Lists) in a List's tree
MaxNodes == 3

PodBytes == <<80, 111, 100>>                      \* Pod
OpaqueBytes == <<79, 112, 97, 113, 117, 101>>     \* Opaque
V1Bytes == <<118, 49>>                            \* v1
ExampleBytes == <<101, 120, 97, 109, 112, 108, 101>> \* example
WorldBytes == <<119, 111, 114, 108, 100>>         \* world
ValueBytes == <<118, 97, 108, 117, 101>>          \* value
ValueB64 == <<100, 109, 70, 115, 100, 87, 85, 61>> \* dmFsdWU=  (value)
EacuteB64 == <<119, 54, 107, 61>>                 \* w6k=  (the two bytes of e-acute)
InvalidB64 == <<100, 109, 42, 115>>               \* dm*s  (no base64)
BinaryB64 == <<47, 119, 61, 61>>                  \* /w==  (the byte 255: no UTF-8)

Metadata == Obj(<<<<"name", Str(ExampleBytes)>>>>)

\* the maps with distinct keys among `keys`, values among `vals`, in every order
MapsOver(keys, vals) ==
    UNION {{m \in [1..n -> keys \X vals] :
                \A i, j \in 1..n : i # j => m[i][1] # m[j][1]} :
           n \in 0..Cardinality(keys)}

EntryKeys == {"key", "hello"}
DataEntryValues == {Str(ValueB64), Str(EacuteB64), Str(InvalidB64), Str(BinaryB64), Num(1)}
DataValues == {Obj(m) : m \in MapsOver(EntryKeys, DataEntryValues)} \cup {Str(ValueB64)}
StringDataValues ==
    {Obj(m) : m \in MapsOver(EntryKeys, {Str(WorldBytes)})} \cup {Str(WorldBytes)}

\* an object with the keys of `layout`, in that order
Field(k, kind, data, stringData, items) ==
    CASE k = "kind" -> kind
      [] k = "data" -> data
      [] k = "stringData" -> stringData
      [] k = "items" -> items
      [] k = "metadata" -> Metadata
      [] k = "type" -> Str(OpaqueBytes)
      [] k = "apiVersion" -> Str(V1Bytes)

Resource(layout, kind, data, stringData, items) ==
    Obj([i \in 1..Len(layout) |->
            <<layout[i], Field(layout[i], kind, data, stringData, items)>>])

Layouts(keys) ==
    UNION {{l \in [1..n -> keys] : \A i, j \in 1..n : i # j => l[i] # l[j]} :
           n \in 0..Cardinality(keys)}

OneData == Obj(<<<<"key", Str(ValueB64)>>>>)
OneStringData == Obj(<<<<"hello", Str(WorldBytes)>>>>)

\* Secrets with every data and stringData, in a few layouts
MergeSecrets ==
    {Resource(l, Str(SecretBytes), d, s, Null) :
        l \in {<<"kind", "data">>,
               <<"kind", "metadata", "data", "stringData">>,
               <<"stringData", "kind", "data", "type">>},
        d \in DataValues, s \in StringDataValues}

\* Secrets in every layout, with one data and one stringData
LayoutSecrets ==
    {Resource(l, Str(SecretBytes), OneData, OneStringData, Null) :
        l \in {l \in Layouts({"kind", "data", "stringData", "metadata", "type"}) :
                  \E i \in 1..Len(l) : l[i] = "kind"}}

\* objects that are no Secret and no List, scalars and arrays
Opaques ==
    {Resource(l, k, d, OneStringData, Arr(<<Resource(<<"kind", "data">>,
                                                       Str(SecretBytes), OneData, Null, Null)>>)) :
        l \in {<<"data">>, <<"kind", "data">>, <<"apiVersion", "data", "kind", "metadata">>,
               <<"kind", "items">>, <<"data", "stringData", "items">>},
        k \in {Str(PodBytes), Num(1), Null, Str(<<>>)},
        d \in {OneData, Obj(<<<<"key", Str(InvalidB64)>>>>), Str(ValueB64),
               Resource(<<"kind", "data">>, Str(SecretBytes), OneData, Null, Null)}}
    \cup {Null, Num(1), Str(SecretBytes), Str(ValueB64), Arr(<<>>),
          Arr(<<Resource(<<"kind", "data">>, Str(SecretBytes), OneData, Null, Null)>>),
          Arr(<<Resource(<<"kind", "items">>, Str(ListBytes), Null, Null,
                         Arr(<<Resource(<<"data", "kind">>, Str(SecretBytes),
                                        OneData, Null, Null)>>))>>)}

\* what a List's items hold, besides Lists
ItemAtoms ==
    {Resource(<<"apiVersion", "data", "kind", "metadata">>, Str(SecretBytes), OneData, Null, Null),
     Resource(<<"kind", "stringData", "data">>, Str(SecretBytes),
              Obj(<<<<"hello", Str(EacuteB64)>>>>), OneStringData, Null),
     Resource(<<"kind", "data">>, Str(SecretBytes),
              Obj(<<<<"key", Str(InvalidB64)>>>>), Null, Null),
     Resource(<<"kind", "stringData">>, Str(SecretBytes), Null, OneStringData, Null),
     Resource(<<"apiVersion", "data", "kind", "metadata">>, Str(PodBytes), OneData, Null, Null),
     Str(ValueB64)}

\* the item sequences of exactly n entries in all, nested Lists counted with
\* what they hold
RECURSIVE Forests(_)
Trees(n) ==
    (IF n = 1 THEN ItemAtoms ELSE {})
    \cup {Resource(<<"kind", "items">>, Str(ListBytes), Null, Null, Arr(f)) : f \in Forests(n - 1)}

Forests(n) ==
    IF n = 0 THEN {<<>>}
    ELSE UNION {{<<t>> \o f : t \in Trees(c), f \in Forests(n - c)} : c \in 1..n}

Lists ==
    {Resource(l, Str(ListBytes), OneData, Null, Arr(f)) :
        l \in {<<"kind", "metadata", "items">>, <<"items", "data", "kind">>},
        f \in UNION {Forests(n) : n \in 0..MaxNodes}}

\* Lists whose items is absent or no Array
OddLists ==
    {Resource(l, Str(ListBytes), OneData, Null, i) :
        l \in {<<"kind">>, <<"metadata", "kind", "data">>, <<"kind", "items">>,
               <<"items", "kind", "metadata">>},
        i \in {Null, Num(1), Str(ValueB64), OneData}}

Documents == MergeSecrets \cup LayoutSecrets \cup Opaques \cup Lists \cup OddLists

----------------------------------------------------------------------------
(* main, src/src/main.rs lines 11-29 *)

Init ==
    /\ preserve_order \in BOOLEAN
    /\ stdin \in Documents \cup {Malformed}
    /\ pc = "start"
    /\ input = Null
    /\ output = Null
    /\ yaml = <<>>
    /\ stdout = <<>>
    /\ panic = "none"
    /\ exit_code = -1

\* line 12, from_reader returns Ok
ReadOk ==
    /\ pc = "start"
    /\ stdin # Malformed
    /\ input' = FromReader(stdin, preserve_order)
    /\ pc' = "parsed"
    /\ UNCHANGED <<preserve_order, stdin, output, yaml, stdout, panic, exit_code>>

\* line 12, from_reader returns Err and `?` returns it from main
ReadErr ==
    /\ pc = "start"
    /\ stdin = Malformed
    /\ pc' = "exited"
    /\ exit_code' = 1
    /\ UNCHANGED <<preserve_order, stdin, input, output, yaml, stdout, panic>>

\* line 13, parse_input returns
TransformOk ==
    /\ pc = "parsed"
    /\ IsOk(parse_input(input, preserve_order))
    /\ output' = parse_input(input, preserve_order)[2]
    /\ pc' = "transformed"
    /\ UNCHANGED <<preserve_order, stdin, input, yaml, stdout, panic, exit_code>>

\* line 13, an unwrap() in parse_input panics: the process ends with status 101
TransformPanic ==
    /\ pc = "parsed"
    /\ ~IsOk(parse_input(input, preserve_order))
    /\ panic' = parse_input(input, preserve_order)[2]
    /\ pc' = "exited"
    /\ exit_code' = 101
    /\ UNCHANGED <<preserve_order, stdin, input, output, yaml, stdout>>

\* line 14
Serialize ==
    /\ pc = "transformed"
    /\ yaml' = ToYaml(output)
    /\ pc' = "serialized"
    /\ UNCHANGED <<preserve_order, stdin, input, output, stdout, panic, exit_code>>

\* lines 15-28: every line is highlighted and printed, and main returns Ok
PrintAll ==
    /\ pc = "serialized"
    /\ stdout' = stdout \o yaml
    /\ pc' = "exited"
    /\ exit_code' = 0
    /\ UNCHANGED <<preserve_order, stdin, input, output, yaml, panic>>

Next == ReadOk \/ ReadErr \/ TransformOk \/ TransformPanic \/ Serialize \/ PrintAll

Spec == Init /\ [][Next]_vars

----------------------------------------------------------------------------
(* vocabulary of the properties *)

\* parse_input has been called, and has returned
Called == pc \in {"transformed", "serialized"} \/ exit_code \in {0, 101}
Returned == pc \in {"transformed", "serialized"} \/ exit_code = 0
Panicked == exit_code = 101

HasKind(v, bytes) ==
    IsObject(v) /\ HasKey(v[2], "kind") /\ MapGet(v[2], "kind") = Str(bytes)
IsSecret(v) == HasKind(v, SecretBytes)
IsList(v) == HasKind(v, ListBytes)
HasField(v, k) == IsObject(v) /\ HasKey(v[2], k)
FieldOf(v, k) == MapGet(v[2], k)
SecretWithData(v) == IsSecret(v) /\ HasField(v, "data")
ListWithItems(v) == IsList(v) /\ HasField(v, "items") /\ IsArray(FieldOf(v, "items"))
ItemsOf(v) == FieldOf(v, "items")[2]

\* the keys of a map other than those in `drop`, in the map's order
RECURSIVE KeysWithout(_, _)
KeysWithout(m, drop) ==
    IF m = <<>> THEN <<>>
    ELSE (IF m[1][1] \in drop THEN <<>> ELSE <<m[1][1]>>) \o KeysWithout(Tail(m), drop)

NoDuplicateKeys(m) == Cardinality(KeysOf(m)) = Len(m)

----------------------------------------------------------------------------
(* C1: merge of stringData and decoded data *)

\* the precondition of C1: data is an Object of valid base64 Strings, and
\* stringData, if present, is an Object
MergeInput(v) ==
    /\ SecretWithData(v)
    /\ IsObject(FieldOf(v, "data"))
    /\ \A i \in 1..Len(FieldOf(v, "data")[2]) :
          /\ IsString(FieldOf(v, "data")[2][i][2])
          /\ Base64Valid(FieldOf(v, "data")[2][i][2][2])
    /\ HasField(v, "stringData") => IsObject(FieldOf(v, "stringData"))

AllDecodeToText(v) ==
    \A i \in 1..Len(FieldOf(v, "data")[2]) :
        Utf8Valid(Base64Decode(FieldOf(v, "data")[2][i][2][2])[2])

ExistingOf(v) == IF HasField(v, "stringData") THEN FieldOf(v, "stringData")[2] ELSE <<>>

\* C1: for a Secret whose data is an Object of valid base64 Strings (stringData an
\* Object if present), the returned stringData has exactly the keys of the input's
\* stringData and of data; a data key maps to its decoded text (also when
\* stringData had the key), every other key keeps its stringData value.  The call
\* returns whenever every decoded value is UTF-8 text.
C1_MergeUnion ==
    (Called /\ MergeInput(input)) =>
        /\ AllDecodeToText(input) => Returned
        /\ Returned =>
              LET data == FieldOf(input, "data")[2]
                  existing == ExistingOf(input)
              IN /\ HasField(output, "stringData")
                 /\ IsObject(FieldOf(output, "stringData"))
                 /\ NoDuplicateKeys(FieldOf(output, "stringData")[2])
                 /\ KeysOf(FieldOf(output, "stringData")[2]) = KeysOf(data) \cup KeysOf(existing)
                 /\ \A k \in KeysOf(data) :
                       MapGet(FieldOf(output, "stringData")[2], k)
                           = Str(Base64Decode(MapGet(data, k)[2])[2])
                 /\ \A k \in KeysOf(existing) \ KeysOf(data) :
                       MapGet(FieldOf(output, "stringData")[2], k) = MapGet(existing, k)

\* a Secret was merged whose stringData shares one key with data and has one of its own
C1_Witness ==
    /\ Returned
    /\ MergeInput(input)
    /\ KeysOf(ExistingOf(input)) \cap KeysOf(FieldOf(input, "data")[2]) # {}
    /\ KeysOf(ExistingOf(input)) \ KeysOf(FieldOf(input, "data")[2]) # {}
    /\ MapGet(FieldOf(output, "stringData")[2], "key") = Str(ValueBytes)

----------------------------------------------------------------------------
(* C2: no data key is left *)

RECURSIVE SecretsDataFree(_)
SecretsDataFree(v) ==
    IF IsSecret(v) THEN ~HasField(v, "data")
    ELSE IF ListWithItems(v) THEN \A i \in 1..Len(ItemsOf(v)) : SecretsDataFree(ItemsOf(v)[i])
    ELSE TRUE

\* C2: whenever parse_input returns, the returned Secret has no data key, and
\* neither has any Secret among the items of a returned List, at any depth
C2_NoDataLeft == Returned => SecretsDataFree(output)

\* a List was returned that holds a Secret that had data, and a List holding another
C2_Witness ==
    /\ Returned
    /\ ListWithItems(input)
    /\ \E i, j \in 1..Len(ItemsOf(input)) :
          /\ SecretWithData(ItemsOf(input)[i])
          /\ ListWithItems(ItemsOf(input)[j])
          /\ \E n \in 1..Len(ItemsOf(ItemsOf(input)[j])) :
                SecretWithData(ItemsOf(ItemsOf(input)[j])[n])

----------------------------------------------------------------------------
(* C3: identity outside Secret and List *)

Opaque(v) == ~IsSecret(v) /\ ~IsList(v)

\* C3: on a Value that is no Object, or an Object whose kind is absent or neither
\* "Secret" nor "List", parse_input returns its argument unchanged
C3_IdentityOnOpaque == (Called /\ Opaque(input)) => (Returned /\ output = input)

\* an object of another kind that wraps a Secret with data came back as it went in
C3_Witness ==
    /\ Returned
    /\ HasKind(input, PodBytes)
    /\ HasField(input, "data")
    /\ SecretWithData(FieldOf(input, "data"))
    /\ output = input

----------------------------------------------------------------------------
(* C4: a List's items are transformed one by one *)

RECURSIVE ItemsTransformed(_, _, _)
ItemsTransformed(in, out, po) ==
    ListWithItems(in) =>
        /\ ListWithItems(out)
        /\ Len(ItemsOf(out)) = Len(ItemsOf(in))
        /\ \A i \in 1..Len(ItemsOf(in)) :
              /\ Ok(ItemsOf(out)[i]) = parse_input(ItemsOf(in)[i], po)
              /\ Opaque(ItemsOf(in)[i]) => ItemsOf(out)[i] = ItemsOf(in)[i]
              /\ SecretWithData(ItemsOf(in)[i]) =>
                    /\ ~HasField(ItemsOf(out)[i], "data")
                    /\ HasField(ItemsOf(out)[i], "stringData")
              /\ ItemsTransformed(ItemsOf(in)[i], ItemsOf(out)[i], po)

\* C4: the items of a returned List are as many as the input's, the i-th being
\* parse_input of the input's i-th (a Secret decoded, an item of another kind
\* unchanged), in the Lists among the items as well
C4_ListItemwise == Returned => ItemsTransformed(input, output, preserve_order)

\* a List came back whose items were a Secret with data, a Pod with data and a List
C4_Witness ==
    /\ Returned
    /\ ListWithItems(input)
    /\ \E i, j, n \in 1..Len(ItemsOf(input)) :
          /\ SecretWithData(ItemsOf(input)[i])
          /\ HasKind(ItemsOf(input)[j], PodBytes) /\ HasField(ItemsOf(input)[j], "data")
          /\ ListWithItems(ItemsOf(input)[n])

----------------------------------------------------------------------------
(* C5: idempotence on Secrets *)

\* C5: a second parse_input of a returned Secret finds no data and returns it unchanged
C5_Idempotent ==
    (Returned /\ IsSecret(input)) =>
        /\ ~HasField(output, "data")
        /\ parse_input(output, preserve_order) = Ok(output)

\* a Secret with data and stringData was transformed
C5_Witness ==
    /\ Returned
    /\ SecretWithData(input)
    /\ HasField(input, "stringData")
    /\ output # input

----------------------------------------------------------------------------
(* C6: invalid base64 *)

\* what is wrong with one data value, "" if nothing
EntryFault(value) ==
    IF ~IsString(value) THEN "NoneUnwrap"
    ELSE IF ~Base64Valid(value[2]) THEN "DecodeError"
    ELSE IF ~Utf8Valid(Base64Decode(value[2])[2]) THEN "FromUtf8Error"
    ELSE ""

\* the faults of a document in the order the traversal meets them: a Secret's
\* stringData, its data, its data entries in the map's order, a List's items one
\* after the other
RECURSIVE Faults(_)
RECURSIVE ItemFaults(_)
ItemFaults(items) ==
    IF items = <<>> THEN <<>> ELSE Faults(Head(items)) \o ItemFaults(Tail(items))

Faults(v) ==
    IF SecretWithData(v)
    THEN (IF HasField(v, "stringData") /\ ~IsObject(FieldOf(v, "stringData"))
          THEN <<"NoneUnwrap">> ELSE <<>>)
         \o (IF ~IsObject(FieldOf(v, "data")) THEN <<"NoneUnwrap">>
             ELSE SelectSeq([i \in 1..Len(FieldOf(v, "data")[2]) |->
                                EntryFault(FieldOf(v, "data")[2][i][2])],
                            LAMBDA f : f # ""))
    ELSE IF IsList(v) /\ HasField(v, "items")
    THEN (IF IsArray(FieldOf(v, "items")) THEN ItemFaults(ItemsOf(v)) ELSE <<"NoneUnwrap">>)
    ELSE <<>>

HasInvalidBase64(v) == \E i \in 1..Len(Faults(v)) : Faults(v)[i] = "DecodeError"

NothingProduced == output = Null /\ yaml = <<>> /\ stdout = <<>>

\* C6 as claimed: a data entry that is a String and no valid base64, in the root
\* Secret or a Secret among a List's items, makes the operation fail with
\* DecodeError, returning no value and printing nothing
C6_FailsWithDecodeError ==
    (Called /\ HasInvalidBase64(input)) =>
        (Panicked /\ panic = "DecodeError" /\ NothingProduced)

\* C6 amended: with such an entry the operation always fails, returning no value
\* and printing nothing, and it fails with the first fault of the traversal: with
\* DecodeError exactly when nothing met before the invalid entry is faulty itself
C6_FailsWithFirstFault ==
    (Called /\ HasInvalidBase64(input)) =>
        /\ Panicked
        /\ NothingProduced
        /\ panic = Faults(input)[1]

\* a List failed with DecodeError on an invalid entry of a Secret that follows a
\* sound Secret among the items
C6_Witness ==
    /\ Panicked
    /\ panic = "DecodeError"
    /\ NothingProduced
    /\ ListWithItems(input)
    /\ Len(ItemsOf(input)) >= 2
    /\ SecretWithData(ItemsOf(input)[1]) /\ Faults(ItemsOf(input)[1]) = <<>>
    /\ HasInvalidBase64(ItemsOf(input)[2])

----------------------------------------------------------------------------
(* C7: wrongly typed fields of a Secret *)

WronglyTyped(v) ==
    /\ SecretWithData(v)
    /\ \/ ~IsObject(FieldOf(v, "data"))
       \/ HasField(v, "stringData") /\ ~IsObject(FieldOf(v, "stringData"))
       \/ /\ IsObject(FieldOf(v, "data"))
          /\ \E i \in 1..Len(FieldOf(v, "data")[2]) : ~IsString(FieldOf(v, "data")[2][i][2])

\* C7 as claimed: a Secret with data whose data or stringData is no Object, or
\* with a data value that is no String, ends in the reported error TypeError and
\* not in a panic of the process
C7_TypeErrorReported ==
    (Called /\ WronglyTyped(input)) =>
        (~Panicked /\ panic \in {"none", "TypeError"} /\ ~Returned)

----------------------------------------------------------------------------
(* C8: a List without an Array of items *)

\* C8 as claimed: a List whose items is absent or no Array is returned unchanged
C8_OddListUnchanged ==
    (Called /\ IsList(input) /\ ~ListWithItems(input)) => (Returned /\ output = input)

----------------------------------------------------------------------------
(* C9: key order *)

Owned == {"data", "stringData"}

IsSortedKeys(m) == \A i, j \in 1..Len(m) : i < j => KeyRank(m[i][1]) < KeyRank(m[j][1])

\* data and stringData are the last keys of the map
OwnedAreLast(m) ==
    \A i, j \in 1..Len(m) : (m[i][1] \in Owned /\ m[j][1] \notin Owned) => j < i

----------------------------------------------------------------------------
(* C10: the other fields are left alone *)

SameField(in, out, k) == HasField(out, k) /\ FieldOf(out, k) = FieldOf(in, k)

\* C10: a returned Secret that had data holds every other key of the input with
\* its input value and, besides stringData, no key more; a returned List holds
\* every key of the input, all but items with their input values; the kind is
\* the input's
C10_FrameOfOwnedFields ==
    Returned =>
        /\ SecretWithData(input) =>
              /\ \A k \in KeysOf(input[2]) \ Owned : SameField(input, output, k)
              /\ KeysOf(output[2]) \subseteq (KeysOf(input[2]) \ {"data"}) \cup {"stringData"}
              /\ NoDuplicateKeys(output[2])
              /\ IsSecret(output)
        /\ ListWithItems(input) =>
              /\ \A k \in KeysOf(input[2]) \ {"items"} : SameField(input, output, k)
              /\ KeysOf(output[2]) = KeysOf(input[2])
              /\ NoDuplicateKeys(output[2])
              /\ IsList(output)

\* a Secret with data between its metadata and type came back
C10_Witness ==
    /\ Returned
    /\ SecretWithData(input)
    /\ HasField(input, "metadata") /\ HasField(input, "type")
    /\ SameField(input, output, "metadata") /\ SameField(input, output, "type")

====
